---- MODULE Spec2Model ----
(***************************************************************************)
(* tree-grepper: the extraction pipeline of src/main.rs.                   *)
(*                                                                         *)
(*   main -> try_main -> do_query -> find_files (parallel directory walk,  *)
(*   entries sent over an unbounded channel) -> parallel extraction ->     *)
(*   optional sort -> rendering into the buffered stdout -> exit status.   *)
(***************************************************************************)
EXTENDS Integers, Sequences, FiniteSets

(***************************************************************************)
(* Bounds of the model.                                                    *)
(***************************************************************************)
MaxPaths == 2      \* longest list of root paths on the command line
MaxThreads == 2    \* most walker threads of the parallel walker
MaxPool == 2       \* most threads of the extraction pool
MaxLen == 3        \* longest collection handed to the sort on its own

(***************************************************************************)
(* The filesystem the walker sees.  Paths are sequences of components:     *)
(*   a = 1, X = 2, Y = 3, f = 4, g = 5, h = 6, missing = 7                 *)
(*   a/          directory, root                                           *)
(*   a/f         file                                                      *)
(*   a/X/        directory, excluded by a git ignore rule of a/            *)
(*   a/X/g       file                                                      *)
(*   a/Y/        directory, its read may fail                              *)
(*   a/Y/h       file                                                      *)
(*   missing     a root path that does not exist                           *)
(* The root paths of a command line are among a and missing.               *)
(***************************************************************************)
Nodes == 1 .. 7
NoNode == 0
Missing == {7}
Dirs == {1, 3, 5}
Files == {2, 4, 6}
Roots == {1, 7}
GitIgnored == {3}
MayFailRead == {5}

Parent(n) == CASE n = 2 -> 1 [] n = 3 -> 1 [] n = 5 -> 1
               [] n = 4 -> 3 [] n = 6 -> 5 [] OTHER -> NoNode

Children(d) == {n \in Nodes : Parent(n) = d}

PathOf(n) == CASE n = 1 -> <<1>>
               [] n = 2 -> <<1, 4>>
               [] n = 3 -> <<1, 2>>
               [] n = 4 -> <<1, 2, 5>>
               [] n = 5 -> <<1, 3>>
               [] n = 6 -> <<1, 3, 6>>
               [] OTHER -> <<7>>

RECURSIVE Under(_, _)
Under(n, d) == IF Parent(n) = NoNode THEN FALSE
               ELSE Parent(n) = d \/ Under(Parent(n), d)

Formats == {"Lines", "Json", "JsonLines", "PrettyJson"}

RECURSIVE SeqsUpTo(_, _)
SeqsUpTo(S, k) == IF k = 0 THEN {<<>>}
                  ELSE LET shorter == SeqsUpTo(S, k - 1)
                       IN  shorter \cup {Append(s, x) : s \in shorter, x \in S}

Range(s) == {s[i] : i \in 1 .. Len(s)}

\* The lists of root paths tried: each root named at most once.
PathLists == {p \in SeqsUpTo(Roots, MaxPaths) :
                 \A i, j \in 1 .. Len(p) : p[i] = p[j] => i = j}

VARIABLES
    pc,              \* position of the main thread
    opts,            \* QueryOpts, or NoOpts before / without a valid invocation
    stack,           \* walker: pending work, a count per node
    wpc,             \* walker threads: "off", "idle", "visit", "readdir", "done"
    wcur,            \* walker threads: the entry in hand
    quit_now,        \* walker: a callback returned WalkState::Quit
    errSeen,         \* the entries whose Err the walker callback received
    channel,         \* entries sent on the crossbeam channel, in send order
    senders,         \* live Sender handles: root_sender and the walker threads' clones
    receiver_alive,  \* the channel's receiver exists
    items,           \* Vec<DirEntry> returned by find_files
    tpc,             \* extraction threads: "off", "idle", "busy"
    tcur,            \* extraction threads: index into items of the entry in hand
    tparser,         \* extraction threads: the Parser the entry in hand is parsed with
    results,         \* per index of items: "todo", "busy", "skip", "none", "some", "err"
    completed,       \* indexes of items in the order their extraction returned
    extracted_files, \* the collected Vec<ExtractedFile> (each named by its file)
    toWrite,         \* rendered pieces not yet written to out
    out,             \* what the writer handed to try_main has accepted
    result,          \* what try_main returned: "pending", "Ok" or the error's type
    io_error,        \* kind of the io::Error the buffered stdout gave, "none" if none
    exit             \* exit status of the process, NoExit while it runs

vars == <<pc, opts, stack, wpc, wcur, quit_now, errSeen, channel, senders,
          receiver_alive, items, tpc, tcur, tparser, results, completed,
          extracted_files, toWrite, out, result, io_error, exit>>

walkVars == <<stack, wpc, wcur, quit_now, errSeen, channel, senders, receiver_alive>>
taskVars == <<tpc, tcur, tparser, results, completed>>
outVars == <<extracted_files, toWrite, out>>

NoOpts == [paths |-> <<>>, git_ignore |-> FALSE, sort |-> FALSE,
           format |-> "none", chooser_ok |-> FALSE]
NoExit == -1
NoParser == 0

Walkers == 1 .. MaxThreads
Pool == 1 .. MaxPool

Init ==
    /\ pc = "start"
    /\ opts = NoOpts
    /\ stack = [n \in Nodes |-> 0]
    /\ wpc = [w \in Walkers |-> "off"]
    /\ wcur = [w \in Walkers |-> NoNode]
    /\ quit_now = FALSE
    /\ errSeen = {}
    /\ channel = <<>>
    /\ senders = 0
    /\ receiver_alive = FALSE
    /\ items = <<>>
    /\ tpc = [t \in Pool |-> "off"]
    /\ tcur = [t \in Pool |-> 0]
    /\ tparser = [t \in Pool |-> NoParser]
    /\ results = <<>>
    /\ completed = <<>>
    /\ extracted_files = <<>>
    /\ toWrite = <<>>
    /\ out = <<>>
    /\ result = "pending"
    /\ io_error = "none"
    /\ exit = NoExit

(***************************************************************************)
(* try_main: Invocation::from_args.  A command line clap rejects gives a   *)
(* clap::Error; otherwise the invocation is a query with its options.      *)
(***************************************************************************)
FromArgsFails ==
    /\ pc = "start"
    /\ result' = "clap::Error"
    /\ pc' = "main_err"
    /\ UNCHANGED <<opts, walkVars, items, taskVars, outVars, io_error, exit>>

FromArgs ==
    /\ pc = "start"
    /\ \E p \in PathLists, g \in BOOLEAN, s \in BOOLEAN,
          f \in Formats, c \in BOOLEAN :
          opts' = [paths |-> p, git_ignore |-> g, sort |-> s, format |-> f,
                   chooser_ok |-> c]
    /\ pc' = "find_files"
    /\ UNCHANGED <<walkVars, items, taskVars, outVars, result, io_error, exit>>

(***************************************************************************)
(* find_files                                                              *)
(***************************************************************************)
\* FindFilesNoPaths without the bail: the walk falls back on the directory a.
FindFilesNoPaths_Walks ==
    /\ pc = "find_files"
    /\ opts.paths = <<>>
    /\ stack' = [stack EXCEPT ![1] = 1]
    /\ wpc' = [wpc EXCEPT ![1] = "idle"]
    /\ pc' = "walking"
    /\ senders' = 2
    /\ receiver_alive' = TRUE
    /\ UNCHANGED <<opts, wcur, quit_now, errSeen, channel, items, taskVars, outVars,
                   result, io_error, exit>>

\* opts.paths.split_first() is None: bail!
FindFilesNoPaths ==
    /\ pc = "find_files"
    /\ opts.paths = <<>>
    /\ result' = "anyhow::Error"
    /\ pc' = "main_err"
    /\ UNCHANGED <<opts, walkVars, items, taskVars, outVars, io_error, exit>>

\* The callback of lines 158-164 applied to one entry_result.
\* entry_ok: the entry_result is Ok(entry); sent: sender.send(entry) is Ok,
\* which it is exactly when the receiver exists.
Callback(entry_ok, sent) ==
    IF entry_ok THEN (IF sent THEN "Continue" ELSE "Quit") ELSE "Quit"

\* channel::unbounded() gives root_sender and the receiver.
\* WalkParallel::run on the calling thread: each root path is turned into
\* an entry in order; a root that cannot be stat'ed is handed to the
\* callback as Err before any walker thread is started, and a Quit
\* returns from run at once.  Each walker thread started builds its own
\* callback, which holds a clone of root_sender.
RootsOk(p) == \A i \in 1 .. Len(p) : p[i] \notin Missing

FirstMissing(p) == CHOOSE i \in 1 .. Len(p) :
                      /\ p[i] \in Missing
                      /\ \A j \in 1 .. i - 1 : p[j] \notin Missing

ExistingRoots(p) == {i \in 1 .. Len(p) : p[i] \notin Missing}

WalkRoots ==
    /\ pc = "find_files"
    /\ opts.paths # <<>>
    /\ IF RootsOk(opts.paths) \/ Callback(FALSE, FALSE) # "Quit"
       THEN /\ stack' = [n \in Nodes |->
                           Cardinality({i \in ExistingRoots(opts.paths) : opts.paths[i] = n})]
            /\ errSeen' = errSeen \cup (Range(opts.paths) \cap Missing)
            /\ IF ExistingRoots(opts.paths) = {}
               THEN UNCHANGED wpc /\ senders' = 1
               ELSE \E k \in Walkers :
                       /\ wpc' = [w \in Walkers |-> IF w <= k THEN "idle" ELSE "off"]
                       /\ senders' = 1 + k
            /\ UNCHANGED quit_now
       ELSE /\ errSeen' = errSeen \cup {opts.paths[FirstMissing(opts.paths)]}
            /\ quit_now' = TRUE
            /\ senders' = 1
            /\ UNCHANGED <<stack, wpc>>
    /\ receiver_alive' = TRUE
    /\ pc' = "walking"
    /\ UNCHANGED <<opts, wcur, channel, items, taskVars, outVars, result, io_error, exit>>

\* A walker thread takes a pending entry; none is handed out after a Quit.
GetWork(w) ==
    /\ pc = "walking"
    /\ wpc[w] = "idle"
    /\ ~quit_now
    /\ \E n \in Nodes :
          /\ stack[n] > 0
          /\ stack' = [stack EXCEPT ![n] = @ - 1]
          /\ wcur' = [wcur EXCEPT ![w] = n]
    /\ wpc' = [wpc EXCEPT ![w] = "visit"]
    /\ UNCHANGED <<pc, opts, quit_now, errSeen, channel, senders, receiver_alive, items,
                   taskVars, outVars, result, io_error, exit>>

\* The entry in hand is given to the callback as Ok(entry): it is sent on
\* the channel, which fails only without a receiver.  A file is finished
\* with; a directory is read next.
Visit(w) ==
    /\ pc = "walking"
    /\ wpc[w] = "visit"
    /\ channel' = IF receiver_alive THEN Append(channel, wcur[w]) ELSE channel
    /\ IF Callback(TRUE, receiver_alive) = "Quit"
       THEN /\ quit_now' = TRUE
            /\ wpc' = [wpc EXCEPT ![w] = "idle"]
            /\ wcur' = [wcur EXCEPT ![w] = NoNode]
       ELSE /\ UNCHANGED quit_now
            /\ IF wcur[w] \in Dirs
               THEN /\ wpc' = [wpc EXCEPT ![w] = "readdir"]
                    /\ UNCHANGED wcur
               ELSE /\ wpc' = [wpc EXCEPT ![w] = "idle"]
                    /\ wcur' = [wcur EXCEPT ![w] = NoNode]
    /\ UNCHANGED <<pc, opts, stack, errSeen, senders, receiver_alive, items, taskVars,
                   outVars, result, io_error, exit>>

\* Entries the walker leaves out: with git_ignore (and git_exclude,
\* git_global) set, those a git ignore rule excludes.
Skipped(n) == opts.git_ignore /\ n \in GitIgnored

\* Reading the directory in hand succeeds: its entries become pending work.
ReadDir(w) ==
    /\ pc = "walking"
    /\ wpc[w] = "readdir"
    /\ stack' = [n \in Nodes |->
                    IF n \in Children(wcur[w]) /\ ~Skipped(n)
                    THEN stack[n] + 1 ELSE stack[n]]
    /\ wpc' = [wpc EXCEPT ![w] = "idle"]
    /\ wcur' = [wcur EXCEPT ![w] = NoNode]
    /\ UNCHANGED <<pc, opts, quit_now, errSeen, channel, senders, receiver_alive, items,
                   taskVars, outVars, result, io_error, exit>>

\* Reading the directory in hand fails: the callback receives Err.
ReadDirFails(w) ==
    /\ pc = "walking"
    /\ wpc[w] = "readdir"
    /\ wcur[w] \in MayFailRead
    /\ errSeen' = errSeen \cup {wcur[w]}
    /\ quit_now' = (quit_now \/ Callback(FALSE, FALSE) = "Quit")
    /\ wpc' = [wpc EXCEPT ![w] = "idle"]
    /\ wcur' = [wcur EXCEPT ![w] = NoNode]
    /\ UNCHANGED <<pc, opts, stack, channel, senders, receiver_alive, items, taskVars,
                   outVars, result, io_error, exit>>

StackEmpty == \A n \in Nodes : stack[n] = 0

\* WalkerExit with the callback, and its clone of root_sender, never dropped.
WalkerExit_KeepsSender(w) ==
    /\ pc = "walking"
    /\ wpc[w] = "idle"
    /\ quit_now \/ (StackEmpty /\ \A v \in Walkers : wpc[v] \in {"off", "idle", "done"})
    /\ wpc' = [wpc EXCEPT ![w] = "done"]
    /\ UNCHANGED <<pc, opts, stack, wcur, quit_now, errSeen, channel, senders,
                   receiver_alive, items, taskVars, outVars, result, io_error, exit>>

\* A walker thread ends: after a Quit, or when no work is pending and no
\* thread is still producing any.  Its callback is dropped, and with it
\* the callback's clone of root_sender.
WalkerExit(w) ==
    /\ pc = "walking"
    /\ wpc[w] = "idle"
    /\ quit_now \/ (StackEmpty /\ \A v \in Walkers : wpc[v] \in {"off", "idle", "done"})
    /\ wpc' = [wpc EXCEPT ![w] = "done"]
    /\ senders' = senders - 1
    /\ UNCHANGED <<pc, opts, stack, wcur, quit_now, errSeen, channel, receiver_alive,
                   items, taskVars, outVars, result, io_error, exit>>

\* WalkReturns handing over what was sent so far, walker threads still at work.
WalkReturns_Early ==
    /\ pc = "walking"
    /\ items' = channel
    /\ channel' = <<>>
    /\ pc' = "chooser"
    /\ UNCHANGED <<opts, stack, wpc, wcur, quit_now, errSeen, senders, receiver_alive,
                   taskVars, outVars, result, io_error, exit>>

\* run has returned and the walker threads are gone: drop(root_sender);
\* Ok(receiver.iter().collect()) takes every entry out of the channel and
\* ends once no Sender is left; the receiver goes with find_files' frame.
WalkReturns ==
    /\ pc = "walking"
    /\ \A w \in Walkers : wpc[w] \in {"off", "done"}
    /\ senders = 1
    /\ senders' = 0
    /\ items' = channel
    /\ channel' = <<>>
    /\ receiver_alive' = FALSE
    /\ stack' = [n \in Nodes |-> 0]
    /\ wpc' = [w \in Walkers |-> "off"]
    /\ pc' = "chooser"
    /\ UNCHANGED <<opts, wcur, quit_now, errSeen, taskVars, outVars, result, io_error, exit>>

(***************************************************************************)
(* do_query after find_files                                               *)
(***************************************************************************)
\* chooser.extractor_for(entry): an extractor for a regular file of a
\* configured language, None for a directory.
ExtractorFor(n) == n \in Files

\* opts.extractor_chooser() fails: do_query returns the error.
ChooserFails ==
    /\ pc = "chooser"
    /\ ~opts.chooser_ok
    /\ result' = "anyhow::Error"
    /\ pc' = "main_err"
    /\ UNCHANGED <<opts, walkVars, items, taskVars, outVars, io_error, exit>>

\* The chooser is built and the parallel iterator starts on a pool of k
\* threads; entries without an extractor are filtered out.
StartExtraction ==
    /\ pc = "chooser"
    /\ opts.chooser_ok
    /\ results' = [i \in 1 .. Len(items) |->
                     IF ExtractorFor(items[i]) THEN "todo" ELSE "skip"]
    /\ \E k \in Pool : tpc' = [t \in Pool |-> IF t <= k THEN "idle" ELSE "off"]
    /\ pc' = "extract"
    /\ UNCHANGED <<opts, walkVars, items, tcur, tparser, completed, outVars, result,
                   io_error, exit>>

ErrFound == \E i \in 1 .. Len(results) : results[i] = "err"

PoolSize == Cardinality({t \in Pool : tpc[t] # "off"})

\* One Parser made ahead of the iterator and handed to every thread.
ParserOf_Shared(t) == 1

\* map_init(Parser::new, ..): the closure gets the Parser made for the
\* pool thread's own part of the iterator.
ParserOf(t) == t

\* A pool thread takes an entry that no thread has taken (a single thread
\* takes them in the order of items); once an Err has been produced the
\* collect into Result stops feeding entries.
TaskStart(t) ==
    /\ pc = "extract"
    /\ tpc[t] = "idle"
    /\ ~ErrFound
    /\ \E i \in 1 .. Len(results) :
          /\ results[i] = "todo"
          /\ PoolSize = 1 => \A j \in 1 .. i - 1 : results[j] # "todo"
          /\ results' = [results EXCEPT ![i] = "busy"]
          /\ tcur' = [tcur EXCEPT ![t] = i]
    /\ tpc' = [tpc EXCEPT ![t] = "busy"]
    /\ tparser' = [tparser EXCEPT ![t] = ParserOf(t)]
    /\ UNCHANGED <<pc, opts, walkVars, items, completed, outVars, result, io_error, exit>>

\* extract_from_file returns: Ok(None), Ok(Some(extraction)) or Err.
Outcomes == {"none", "some", "err"}

\* TaskFinish writing the extraction to out as soon as the task has it.
TaskFinish_Writes(t) ==
    /\ pc = "extract"
    /\ tpc[t] = "busy"
    /\ \E o \in Outcomes :
          /\ results' = [results EXCEPT ![tcur[t]] = o]
          /\ out' = IF o = "some" THEN Append(out, [kind |-> "lines", file |-> items[tcur[t]]])
                    ELSE out
    /\ completed' = Append(completed, tcur[t])
    /\ tpc' = [tpc EXCEPT ![t] = "idle"]
    /\ tcur' = [tcur EXCEPT ![t] = 0]
    /\ tparser' = [tparser EXCEPT ![t] = NoParser]
    /\ UNCHANGED <<pc, opts, walkVars, items, extracted_files, toWrite, result, io_error, exit>>

TaskFinish(t) ==
    /\ pc = "extract"
    /\ tpc[t] = "busy"
    /\ \E o \in Outcomes : results' = [results EXCEPT ![tcur[t]] = o]
    /\ completed' = Append(completed, tcur[t])
    /\ tpc' = [tpc EXCEPT ![t] = "idle"]
    /\ tcur' = [tcur EXCEPT ![t] = 0]
    /\ tparser' = [tparser EXCEPT ![t] = NoParser]
    /\ UNCHANGED <<pc, opts, walkVars, items, outVars, result, io_error, exit>>

\* Lexicographic order of paths, component by component.
RECURSIVE PathLess(_, _)
PathLess(p, q) ==
    IF q = <<>> THEN FALSE
    ELSE IF p = <<>> THEN TRUE
    ELSE IF Head(p) # Head(q) THEN Head(p) < Head(q)
    ELSE PathLess(Tail(p), Tail(q))

\* ExtractedFile's Ord: by the file's path.
FileLess(e, f) == PathLess(PathOf(e), PathOf(f))

\* Insert that puts the element first without comparing.
Insert_Front(s, e) == <<e>> \o s

\* extracted_files.sort(): a stable sort by Ord.
RECURSIVE Insert(_, _)
Insert(s, e) ==
    IF s = <<>> THEN <<e>>
    ELSE IF FileLess(e, s[Len(s)]) THEN Append(Insert(SubSeq(s, 1, Len(s) - 1), e), s[Len(s)])
    ELSE Append(s, e)

\* Sort leaving the collection as it was collected.
Sort_Unsorted(s) == s

RECURSIVE Sort(_)
Sort(s) == IF s = <<>> THEN <<>>
           ELSE Insert(Sort(SubSeq(s, 1, Len(s) - 1)), s[Len(s)])

\* Collected with Ok(None) kept as an element instead of dropped.
RECURSIVE Collected_KeepsNone(_, _)
Collected_KeepsNone(its, res) ==
    IF its = <<>> THEN <<>>
    ELSE LET rest == Collected_KeepsNone(SubSeq(its, 1, Len(its) - 1),
                                         SubSeq(res, 1, Len(res) - 1))
         IN  IF res[Len(res)] \in {"some", "none"} THEN Append(rest, its[Len(its)])
             ELSE rest

\* The filter_map of lines 92-96 and the collect, on success: the Some
\* results, in the order of items.
RECURSIVE Collected(_, _)
Collected(its, res) ==
    IF its = <<>> THEN <<>>
    ELSE LET rest == Collected(SubSeq(its, 1, Len(its) - 1), SubSeq(res, 1, Len(res) - 1))
         IN  IF res[Len(res)] = "some" THEN Append(rest, its[Len(its)]) ELSE rest

\* What each format writes, as the pieces written one after another.
Piece(k, f) == [kind |-> k, file |-> f]

PerFile(k, efs) == [i \in 1 .. Len(efs) |-> Piece(k, efs[i])]

Render(format, efs) ==
    CASE format = "Lines" -> PerFile("lines", efs)
      [] format = "JsonLines" -> PerFile("json_line", efs)
      [] format = "Json" ->
            <<Piece("[", NoNode)>> \o PerFile("json", efs) \o <<Piece("]", NoNode)>>
      [] OTHER ->
            <<Piece("[", NoNode)>> \o PerFile("pretty_json", efs) \o <<Piece("]", NoNode)>>

\* MaybeSort sorting whether or not the flag is set.
MaybeSort_Always(efs) == Sort(efs)

MaybeSort(efs) == IF opts.sort THEN Sort(efs) ELSE efs

\* Collect that does not wait for the pool threads still extracting.
Collect_NoJoin ==
    /\ pc = "extract"
    /\ ErrFound \/ \A i \in 1 .. Len(results) : results[i] # "todo"
    /\ IF ErrFound
       THEN /\ result' = "anyhow::Error"
            /\ pc' = "main_err"
            /\ UNCHANGED outVars
       ELSE /\ extracted_files' = MaybeSort(Collected(items, results))
            /\ toWrite' = Render(opts.format, extracted_files')
            /\ pc' = "write"
            /\ UNCHANGED <<out, result>>
    /\ UNCHANGED <<opts, walkVars, items, taskVars, io_error, exit>>

\* Every pool thread is idle and the iterator is exhausted or was stopped
\* by an Err: collect::<Result<Vec<_>>>()?, then the sort.
Collect ==
    /\ pc = "extract"
    /\ \A t \in Pool : tpc[t] \in {"off", "idle"}
    /\ ErrFound \/ \A i \in 1 .. Len(results) : results[i] # "todo"
    /\ IF ErrFound
       THEN /\ result' = "anyhow::Error"
            /\ pc' = "main_err"
            /\ UNCHANGED outVars
       ELSE /\ extracted_files' = MaybeSort(Collected(items, results))
            /\ toWrite' = Render(opts.format, extracted_files')
            /\ pc' = "write"
            /\ UNCHANGED <<out, result>>
    /\ UNCHANGED <<opts, walkVars, items, taskVars, io_error, exit>>

\* A write on out succeeds.
Write ==
    /\ pc = "write"
    /\ toWrite # <<>>
    /\ out' = Append(out, Head(toWrite))
    /\ toWrite' = Tail(toWrite)
    /\ UNCHANGED <<pc, opts, walkVars, items, taskVars, extracted_files, result, io_error, exit>>

\* The error a failed write gives do_query: write! and writeln! give the
\* io::Error; serde_json::to_writer(_pretty) gives a serde_json::Error
\* that holds the io::Error.
IoKinds == {"BrokenPipe", "Other"}

WriteError(format) ==
    IF format \in {"Lines", "JsonLines"} THEN "io::Error" ELSE "serde_json::Error"

\* A write on out fails: do_query returns the error with its context.
WriteFails ==
    /\ pc = "write"
    /\ toWrite # <<>>
    /\ \E k \in IoKinds : io_error' = k
    /\ result' = WriteError(opts.format)
    /\ pc' = "main_err"
    /\ UNCHANGED <<opts, walkVars, items, taskVars, outVars, exit>>

\* Everything is written: do_query and try_main return Ok(()).
WriteDone ==
    /\ pc = "write"
    /\ toWrite = <<>>
    /\ result' = "Ok"
    /\ pc' = "flush"
    /\ UNCHANGED <<opts, walkVars, items, taskVars, outVars, io_error, exit>>

(***************************************************************************)
(* main                                                                    *)
(***************************************************************************)
\* error.downcast_ref::<io::Error>() finds the error try_main returned
\* only when that error is an io::Error under its contexts.
ExitStatusOfError(r, kind) ==
    IF r = "io::Error" /\ kind = "BrokenPipe" THEN 0 ELSE 1

MainErr ==
    /\ pc = "main_err"
    /\ exit' = ExitStatusOfError(result, io_error)
    /\ pc' = "exited"
    /\ UNCHANGED <<opts, walkVars, items, taskVars, outVars, result, io_error>>

\* buffer.flush() succeeds and main returns.
Flush ==
    /\ pc = "flush"
    /\ exit' = 0
    /\ pc' = "exited"
    /\ UNCHANGED <<opts, walkVars, items, taskVars, outVars, result, io_error>>

\* buffer.flush() fails: expect panics, whatever the error.
PanicStatus == 101

FlushFails ==
    /\ pc = "flush"
    /\ \E k \in IoKinds : io_error' = k
    /\ exit' = PanicStatus
    /\ pc' = "exited"
    /\ UNCHANGED <<opts, walkVars, items, taskVars, outVars, result>>

Next ==
    \/ FromArgsFails
    \/ FromArgs
    \/ FindFilesNoPaths
    \/ WalkRoots
    \/ \E w \in Walkers : GetWork(w)
    \/ \E w \in Walkers : Visit(w)
    \/ \E w \in Walkers : ReadDir(w)
    \/ \E w \in Walkers : ReadDirFails(w)
    \/ \E w \in Walkers : WalkerExit(w)
    \/ WalkReturns
    \/ ChooserFails
    \/ StartExtraction
    \/ \E t \in Pool : TaskStart(t)
    \/ \E t \in Pool : TaskFinish(t)
    \/ Collect
    \/ Write
    \/ WriteFails
    \/ WriteDone
    \/ MainErr
    \/ Flush
    \/ FlushFails

Spec == Init /\ [][Next]_vars

(***************************************************************************)
(* Properties                                                              *)
(***************************************************************************)
\* find_files has returned its list.
Walked == \/ pc \in {"chooser", "extract", "write", "flush"}
          \/ pc \in {"main_err", "exited"} /\ opts.paths # <<>>

\* The collect of do_query has returned Ok: the collection exists.
CollectOk == \/ pc \in {"write", "flush"}
             \/ pc \in {"main_err", "exited"}
                  /\ result \in {"Ok", "io::Error", "serde_json::Error"}

Count(s, n) == Cardinality({i \in 1 .. Len(s) : s[i] = n})

\* How many entries of items are the file n with an extraction Ok(Some(_)).
SomeCount(n) == Cardinality({i \in 1 .. Len(items) :
                               i <= Len(results) /\ items[i] = n /\ results[i] = "some"})

SomeFound == \E i \in 1 .. Len(results) : results[i] = "some"
NoneFound == \E i \in 1 .. Len(results) : results[i] = "none"

Written(n) == \E k \in 1 .. Len(out) : out[k].file = n

IgnoredSubtree(n) == \E x \in GitIgnored : n = x \/ Under(n, x)

\* The entries a complete walk finds outside the subtrees whose read failed.
RECURSIVE Discoverable(_)
Discoverable(n) ==
    /\ n \notin Missing
    /\ \/ n \in Range(opts.paths)
       \/ /\ Parent(n) # NoNode
          /\ ~Skipped(n)
          /\ Parent(n) \notin errSeen
          /\ Discoverable(Parent(n))

\* C1: when one file's extraction returns an error and another file's
\* returns Some, do_query does not abort and the results of the successful
\* files are written to the output (the output itself not failing).
C1_PerFileFailureNonFatal ==
    (pc = "exited" /\ io_error = "none" /\ ErrFound /\ SomeFound)
        => /\ result = "Ok"
           /\ \A j \in 1 .. Len(results) : results[j] = "some" => Written(items[j])

\* C2: after the walker callback received an Err for one subtree, every
\* readable entry of the other subtrees is in the list find_files returns.
C2_SiblingSubtreesDiscovered ==
    (Walked /\ RootsOk(opts.paths) /\ errSeen # {})
        => \A n \in Nodes :
              (Discoverable(n) /\ \A e \in errSeen : ~Under(n, e))
                  => n \in Range(items)

\* C3: with a root path that does not exist, try_main returns an error and
\* nothing is written to the output.
C3_MissingRootIsFatal ==
    (pc = "exited" /\ ~RootsOk(opts.paths)) => (result # "Ok" /\ out = <<>>)

\* C4: with no root path, find_files fails before any work: no walker
\* thread is started, nothing is pending or sent, no extraction task runs,
\* nothing is written, and the run ends in find_files' error.
C4_NoPathsFailsBeforeWork ==
    (opts # NoOpts /\ opts.paths = <<>>)
        => /\ \A w \in Walkers : wpc[w] = "off" /\ wcur[w] = NoNode
           /\ StackEmpty /\ channel = <<>> /\ items = <<>> /\ errSeen = {}
           /\ \A t \in Pool : tpc[t] = "off"
           /\ results = <<>>
           /\ extracted_files = <<>> /\ toWrite = <<>> /\ out = <<>>
           /\ pc \in {"find_files", "main_err", "exited"}
           /\ pc # "find_files" => result = "anyhow::Error"
           /\ pc = "exited" => exit = 1

C4_Witness ==
    opts # NoOpts /\ opts.paths = <<>> /\ pc = "exited" /\ exit = 1

\* The files of S in ascending order of path.
RECURSIVE Ascending(_)
Ascending(S) ==
    IF S = {} THEN <<>>
    ELSE LET m == CHOOSE x \in S : \A y \in S \ {x} : FileLess(x, y)
         IN  <<m>> \o Ascending(S \ {m})

\* C5: with the sort flag, the collection handed to the renderer is the
\* one ascending sequence of the per-file results, whatever order the
\* walker threads and extraction tasks produced them in, and the output
\* is the rendering of that sequence.
C5_SortedOrderIsDeterministic ==
    (CollectOk /\ opts.sort)
        => /\ extracted_files = Ascending({n \in Nodes : SomeCount(n) > 0})
           /\ out \o toWrite = Render(opts.format, extracted_files)

C5_Witness ==
    /\ pc = "flush" /\ opts.sort
    /\ Len(extracted_files) >= 3
    /\ extracted_files # Collected(items, results)

\* C6: whatever the size of the pool, the collection holds each entry
\* with matches exactly once and no entry is left unextracted; a failed
\* extraction gives the error and no collection, whatever the size.
C6_SameResultsForAnyPoolSize ==
    /\ CollectOk
          => /\ \A i \in 1 .. Len(results) : results[i] \in {"skip", "none", "some"}
             /\ \A n \in Nodes : Count(extracted_files, n) = SomeCount(n)
    /\ (pc \in {"main_err", "exited"} /\ ErrFound)
          => result = "anyhow::Error" /\ extracted_files = <<>>

C6_Witness ==
    /\ pc = "flush"
    /\ Cardinality({t \in Pool : tpc[t] # "off"}) > 1
    /\ Len(extracted_files) >= 2
    /\ NoneFound

\* C7: a BrokenPipe error of any write or flush of the buffered stdout,
\* in any format, ends the process with exit status zero.
C7_BrokenPipeExitsZero ==
    (pc = "exited" /\ io_error = "BrokenPipe") => exit = 0

\* C8: with git_ignore set no entry of an excluded subdirectory is
\* produced by find_files; with git_ignore unset the entries of the
\* excluded subdirectory are produced.
C8_IgnoreMode ==
    /\ opts.git_ignore
          => \A n \in Range(channel) \cup Range(items) : ~IgnoredSubtree(n)
    /\ (Walked /\ ~opts.git_ignore /\ RootsOk(opts.paths))
          => \A n \in Nodes : IgnoredSubtree(n) => n \in Range(items)

\* C9: the collection never holds an element for a file whose extraction
\* returned Ok(None), and holds exactly one element for each extraction
\* that returned Ok(Some(_)).
C9_NoMatchesIsAbsence ==
    /\ \A i \in 1 .. Len(results) :
          (results[i] = "none" /\ SomeCount(items[i]) = 0)
              => items[i] \notin Range(extracted_files)
    /\ CollectOk
          => /\ Len(extracted_files)
                  = Cardinality({i \in 1 .. Len(results) : results[i] = "some"})
             /\ \A i \in 1 .. Len(results) :
                   results[i] = "some" => Count(extracted_files, items[i]) = 1

C9_Witness ==
    pc = "flush" /\ NoneFound /\ SomeFound

\* C10: the exit status is zero on success, a run without matches
\* included, and non-zero on a fatal configuration error or a traversal
\* error.
ConfigError == result = "clap::Error" \/ (result = "anyhow::Error" /\ ~ErrFound)

C10_ExitStatus ==
    pc = "exited"
        => /\ (result = "Ok" /\ io_error = "none" /\ errSeen = {}) => exit = 0
           /\ (ConfigError \/ errSeen # {}) => exit # 0

\* C11: a run in which an extraction returned an error, with no fatal
\* configuration or traversal error and no output failure, exits with
\* status zero.
C11_PartialFailureExitsZero ==
    (pc = "exited" /\ ErrFound /\ errSeen = {} /\ io_error = "none") => exit = 0

\* C12: once find_files has returned, every walker thread has ended and
\* the channel is empty, and the list returned holds exactly once each
\* entry that exists under the roots, is not ignored and can be listed.
C12_NoEntryLost ==
    Walked
        => /\ channel = <<>> /\ senders = 0
           /\ \A w \in Walkers : wpc[w] = "off"
           /\ \A n \in Nodes : Discoverable(n) => Count(items, n) = 1

(***************************************************************************)
(* The sort of do_query on its own: any collection of per-file results,    *)
(* a file more than once included, is sorted and then sorted again.        *)
(***************************************************************************)
SortOpts == [paths |-> <<1>>, git_ignore |-> TRUE, sort |-> TRUE,
             format |-> "Lines", chooser_ok |-> TRUE]

InitSort ==
    /\ pc = "sort"
    /\ opts = SortOpts
    /\ stack = [n \in Nodes |-> 0]
    /\ wpc = [w \in Walkers |-> "off"]
    /\ wcur = [w \in Walkers |-> NoNode]
    /\ quit_now = FALSE
    /\ errSeen = {}
    /\ channel = <<>>
    /\ senders = 0
    /\ receiver_alive = FALSE
    /\ items \in SeqsUpTo(Files, MaxLen)
    /\ tpc = [t \in Pool |-> "off"]
    /\ tcur = [t \in Pool |-> 0]
    /\ tparser = [t \in Pool |-> NoParser]
    /\ results = [i \in 1 .. Len(items) |-> "some"]
    /\ completed = <<>>
    /\ extracted_files = Collected(items, results)
    /\ toWrite = <<>>
    /\ out = <<>>
    /\ result = "pending"
    /\ io_error = "none"
    /\ exit = NoExit

\* if opts.sort { extracted_files.sort() }
SortFiles ==
    /\ pc = "sort"
    /\ extracted_files' = MaybeSort(extracted_files)
    /\ pc' = "sorted"
    /\ UNCHANGED <<opts, walkVars, items, taskVars, toWrite, out, result, io_error, exit>>

\* The same sort applied to the collection it has sorted.
SortAgain ==
    /\ pc = "sorted"
    /\ extracted_files' = MaybeSort(extracted_files)
    /\ pc' = "resorted"
    /\ UNCHANGED <<opts, walkVars, items, taskVars, toWrite, out, result, io_error, exit>>

NextSort == SortFiles \/ SortAgain

SortSpec == InitSort /\ [][NextSort]_vars

\* C13: applying the sort of do_query to a collection that it has already
\* sorted leaves the collection as it is.
C13_SortIdempotent ==
    [][pc = "sorted" => extracted_files' = extracted_files]_vars

C13_Witness ==
    /\ pc = "resorted"
    /\ Len(extracted_files) >= 3
    /\ extracted_files # items
    /\ \E i, j \in 1 .. Len(items) : i # j /\ items[i] = items[j]

\* C14: when a fatal configuration error is reported, find_files has not
\* walked: no entry was discovered and no entry was handed to the walker
\* callback as an error.
C14_ConfigErrorBeforeTraversal ==
    (pc \in {"main_err", "exited"} /\ ConfigError)
        => items = <<>> /\ errSeen = {}

(***************************************************************************)
(* find_files on its own, with every thread that can take a step           *)
(* eventually scheduled: the main thread and each walker thread.           *)
(***************************************************************************)
NextFindFiles ==
    \/ FromArgs
    \/ FindFilesNoPaths
    \/ WalkRoots
    \/ \E w \in Walkers : GetWork(w) \/ Visit(w) \/ ReadDir(w) \/ ReadDirFails(w) \/ WalkerExit(w)
    \/ WalkReturns

FairFindFiles ==
    /\ WF_vars(FromArgs \/ FindFilesNoPaths \/ WalkRoots \/ WalkReturns)
    /\ \A w \in Walkers :
          WF_vars(GetWork(w) \/ Visit(w) \/ ReadDir(w) \/ ReadDirFails(w) \/ WalkerExit(w))

FindFilesSpec == Init /\ [][NextFindFiles]_vars /\ FairFindFiles

\* C15: find_files, once called, returns: with the list after the walk, or
\* with the error of an empty path list.
C15_FindFilesTerminates ==
    (pc = "find_files") ~> (pc \in {"chooser", "main_err"})

C15_Witness ==
    /\ pc = "chooser"
    /\ senders = 0 /\ ~receiver_alive
    /\ Len(items) >= 5

\* C16: two extraction tasks running at the same time never parse with
\* the same Parser, every running task has one, and no step taken while
\* the extraction runs changes the options the chooser and the queries
\* come from.
C16_ParserExclusive ==
    /\ [](\A t \in Pool :
            tpc[t] = "busy"
               => /\ tparser[t] # NoParser
                  /\ \A u \in Pool \ {t} : tpc[u] = "busy" => tparser[u] # tparser[t])
    /\ [][pc = "extract" => opts' = opts]_vars

C16_Witness ==
    /\ pc = "extract"
    /\ \E t, u \in Pool :
          /\ t # u /\ tpc[t] = "busy" /\ tpc[u] = "busy"
          /\ tparser[t] # NoParser /\ tparser[u] # NoParser

Traversing == pc = "walking" /\ \E w \in Walkers : wpc[w] \in {"idle", "visit", "readdir"}

\* C17 as claimed: while the traversal is in progress and an entry has
\* already been sent, the extraction of a discovered entry can start.
C17_ExtractionDuringTraversal ==
    (Traversing /\ channel # <<>>)
        => ENABLED (StartExtraction \/ \E t \in Pool : TaskStart(t))

\* C17: a walker sends each entry on the channel in the step that visits
\* it, but nothing is handed to the extraction before the traversal is
\* over: while a walker thread exists or the channel holds an entry, the
\* list of items is empty and no extraction task exists.
C17_ExtractionAfterTraversal ==
    /\ []((\E w \in Walkers : wpc[w] # "off") \/ channel # <<>>
            => /\ items = <<>> /\ results = <<>>
               /\ \A t \in Pool : tpc[t] = "off")
    /\ [][\A w \in Walkers :
            (wpc[w] = "visit" /\ wpc'[w] # "visit")
                => channel' = Append(channel, wcur[w])]_vars

C17_Witness ==
    /\ Traversing
    /\ Len(channel) >= 2
    /\ \E w \in Walkers : wpc[w] = "visit"

\* The files with an extraction Ok(Some(_)) among the entries of items
\* indexed by idx, in the order of idx.
RECURSIVE SomeOf(_)
SomeOf(idx) ==
    IF idx = <<>> THEN <<>>
    ELSE LET rest == SomeOf(SubSeq(idx, 1, Len(idx) - 1))
             i == idx[Len(idx)]
         IN  IF results[i] = "some" THEN Append(rest, items[i]) ELSE rest

\* C18 as claimed: without the sort flag the collection holds the results
\* in the order in which the extraction tasks completed.
C18_CompletionOrder ==
    (CollectOk /\ ~opts.sort) => extracted_files = SomeOf(completed)

\* C18: without the sort flag the collection holds the results in the
\* order of the entries in the list find_files returned, whatever order
\* the extraction tasks completed in, and the output renders it in that
\* order.
C18_DiscoveryOrder ==
    (CollectOk /\ ~opts.sort)
        => /\ \A a, b \in 1 .. Len(extracted_files) :
                 a < b => \E i, j \in 1 .. Len(items) :
                             /\ i < j
                             /\ items[i] = extracted_files[a] /\ results[i] = "some"
                             /\ items[j] = extracted_files[b] /\ results[j] = "some"
           /\ out \o toWrite = Render(opts.format, extracted_files)

C18_Witness ==
    /\ pc = "flush" /\ ~opts.sort
    /\ Len(extracted_files) >= 2
    /\ SomeOf(completed) # extracted_files
    /\ PoolSize > 1

\* The receiver of the channel exists for as long as a walker can send.
ReceiverOutlivesWalk == pc = "walking" => receiver_alive

\* C20: whenever something has been written, the discovery is over, the
\* collect has returned the collection and no extraction task is left or
\* running; and whenever do_query returned an error of the discovery, of
\* the chooser or of an extraction, nothing has been written.
C20_OutputAllOrNothing ==
    /\ out # <<>>
          => /\ CollectOk
             /\ \A w \in Walkers : wpc[w] = "off"
             /\ channel = <<>>
             /\ \A t \in Pool : tpc[t] # "busy"
             /\ \A i \in 1 .. Len(results) : results[i] \in {"skip", "none", "some"}
    /\ (pc \in {"main_err", "exited"} /\ result = "anyhow::Error") => out = <<>>

C20_Witness ==
    /\ pc = "exited" /\ result = "anyhow::Error"
    /\ ErrFound /\ SomeFound
    /\ out = <<>>

====
